---- MODULE Spec2Model ----
(***************************************************************************)
(* Model of the oracle tracker (track_oracles_ts.py): the extraction of    *)
(* protocol records from a Tree-sitter syntax tree, the diff of two        *)
(* datasets, and a run of main() against the persisted snapshot file.      *)
(*                                                                         *)
(* Python strings that the program inspects character by character         *)
(* (unquote, strip, sorted) are sequences of one-character strings.        *)
(* Python's None and the empty dict, which the program tells apart from a  *)
(* record only by truthiness, are the empty function.                      *)
(***************************************************************************)
EXTENDS Integers, Sequences, FiniteSets, TLC

VARIABLES
    \* --- extraction of one file (parse_file_ts) ---
    xTree,        \* the syntax tree handed to parse_file_ts
    xById,        \* the map parse_file_ts returned
    xDone,        \* whether parse_file_ts has run
    \* --- diff of two datasets (diff_states) ---
    dPrev,        \* argument prev
    dNxt,         \* argument nxt
    dChanges,     \* the list diff_states returned
    dDone,        \* whether diff_states has run
    \* --- a run of the tracker (main) ---
    snapshotFile, \* content of oracle_state.json (SNAPSHOT_FILE)
    pc,           \* "idle" | "running" | "done": position of the tracker process
    args,         \* parsed command line of the run
    repo,         \* the data folder: target file name -> content
    dataset,      \* main's local dataset
    prevLoaded,   \* main's local prev (result of load_snapshot)
    changes,      \* main's local changes
    diffed,       \* whether the run called diff_states and it returned
    output,       \* what the run printed, as a sequence of message kinds
    writes,       \* the save_snapshot calls of the run, by call site
    status,       \* "none" | "ok" (main returned) | "error" (an exception escaped)
    before        \* content of the snapshot file when the run started

xvars == <<xTree, xById, xDone>>
dvars == <<dPrev, dNxt, dChanges, dDone>>
mvars == <<snapshotFile, pc, args, repo, dataset, prevLoaded, changes, diffed,
           output, writes, status, before>>
vars == <<xvars, dvars, mvars>>

-----------------------------------------------------------------------------
(* Strings *)

\* The characters the model's strings are made of, in code point order.
Alphabet == <<" ", "\"", "'", "1", "2", "7", "a", "b", "p", "x", "y">>

Rank(c) == CHOOSE i \in 1..Len(Alphabet) : Alphabet[i] = c

\* Python's < on str: lexicographic by code point, a proper prefix is smaller.
RECURSIVE StrLess(_, _)
StrLess(s, t) ==
    IF t = <<>> THEN FALSE
    ELSE IF s = <<>> THEN TRUE
    ELSE IF Head(s) = Head(t) THEN StrLess(Tail(s), Tail(t))
    ELSE Rank(Head(s)) < Rank(Head(t))

\* sorted(S) for a set of strings.
RECURSIVE Sorted(_)
Sorted(S) ==
    IF S = {} THEN <<>>
    ELSE LET m == CHOOSE x \in S : \A y \in S : x = y \/ StrLess(x, y)
         IN  <<m>> \o Sorted(S \ {m})

Range(s) == {s[i] : i \in 1..Len(s)}

Whitespace == {" ", "\t", "\n", "\r"}

RECURSIVE LStrip(_)
LStrip(s) ==
    IF s # <<>> /\ Head(s) \in Whitespace THEN LStrip(Tail(s)) ELSE s

RECURSIVE RStrip(_)
RStrip(s) ==
    IF s # <<>> /\ s[Len(s)] \in Whitespace
    THEN RStrip(SubSeq(s, 1, Len(s) - 1)) ELSE s

\* str.strip()
Strip(s) == RStrip(LStrip(s))

\* Python's None where a string is expected (key_name, pid).
None == <<"None">>

\* Python's None or {} where a record is expected: both are falsy.
Falsy == <<>>

Truthy(r) == DOMAIN r # {}

-----------------------------------------------------------------------------
(* Tree-sitter nodes *)

\* A node: its type tag, whether it is a named node, the source text it
\* spans (kept for the leaves the program reads), its children, and for a
\* pair the positions of its key and value fields among the children
\* (0: the field is missing).
Node(type, named, text, children, keyIx, valIx) ==
    [type |-> type, named |-> named, text |-> text, children |-> children,
     keyIx |-> keyIx, valIx |-> valIx]

get_text(node) == node.text

unquote(s) ==
    IF Len(s) >= 2 /\ s[1] = s[Len(s)] /\ s[1] \in {"\"", "'"}
    THEN SubSeq(s, 2, Len(s) - 1)
    ELSE s

node_is_string(node) == node.type = "string"
node_is_array(node) == node.type = "array"
node_is_object(node) == node.type = "object"

\* child_by_field_name: the child, or Falsy when the field is missing.
child_by_field(node, ix) == IF ix = 0 THEN Falsy ELSE node.children[ix]

\* The (key, value) pairs iter_object_pairs yields, in order.
RECURSIVE PairsOf(_)
PairsOf(children) ==
    IF children = <<>> THEN <<>>
    ELSE LET child == Head(children)
             key == child_by_field(child, child.keyIx)
             val == child_by_field(child, child.valIx)
         IN  IF child.type = "pair" /\ Truthy(key) /\ Truthy(val)
             THEN <<[key |-> key, val |-> val]>> \o PairsOf(Tail(children))
             ELSE PairsOf(Tail(children))

iter_object_pairs(obj_node) == PairsOf(obj_node.children)

key_name(key_node) ==
    IF key_node.type = "property_identifier" THEN get_text(key_node)
    ELSE IF key_node.type = "string" THEN unquote(get_text(key_node))
    ELSE None

named_children(node) == SelectSeq(node.children, LAMBDA c : c.named)

RECURSIVE StringValues(_)
StringValues(els) ==
    IF els = <<>> THEN <<>>
    ELSE IF node_is_string(Head(els))
         THEN <<unquote(get_text(Head(els)))>> \o StringValues(Tail(els))
         ELSE StringValues(Tail(els))

array_string_values(arr_node) == StringValues(named_children(arr_node))

KeyId == <<"i", "d">>
KeyName == <<"n", "a", "m", "e">>
KeyType == <<"t", "y", "p", "e">>
KeyOracles == <<"o", "r", "a", "c", "l", "e", "s">>
KeyBreakdown ==
    <<"o", "r", "a", "c", "l", "e", "s", "B", "r", "e", "a", "k", "d", "o", "w", "n">>

\* (name, type) order of items.sort in oracles_breakdown_items.
EntryLess(e, f) ==
    StrLess(e.name, f.name) \/ (e.name = f.name /\ StrLess(e.type, f.type))

RECURSIVE InsertEntry(_, _)
InsertEntry(e, lst) ==
    IF lst = <<>> THEN <<e>>
    ELSE IF EntryLess(e, Head(lst)) THEN <<e>> \o lst
    ELSE <<Head(lst)>> \o InsertEntry(e, Tail(lst))

\* list.sort (stable): each item goes after the items not greater than it.
RECURSIVE SortEntries(_)
SortEntries(lst) ==
    IF lst = <<>> THEN <<>>
    ELSE InsertEntry(lst[Len(lst)], SortEntries(SubSeq(lst, 1, Len(lst) - 1)))

\* The inner loop of oracles_breakdown_items over one element's pairs.
RECURSIVE BreakdownFields(_, _)
BreakdownFields(pairs, acc) ==
    IF pairs = <<>> THEN acc
    ELSE LET k == key_name(Head(pairs).key)
             v == Head(pairs).val
             acc2 == IF k = KeyName /\ node_is_string(v)
                       THEN [acc EXCEPT !.name = unquote(get_text(v))]
                     ELSE IF k = KeyType /\ node_is_string(v)
                       THEN [acc EXCEPT !.type = unquote(get_text(v))]
                     ELSE acc
         IN  BreakdownFields(Tail(pairs), acc2)

RECURSIVE BreakdownItems(_)
BreakdownItems(els) ==
    IF els = <<>> THEN <<>>
    ELSE LET el == Head(els)
             item == BreakdownFields(iter_object_pairs(el),
                                     [name |-> <<>>, type |-> <<>>])
         IN  IF node_is_object(el) /\ (item.name # <<>> \/ item.type # <<>>)
             THEN <<item>> \o BreakdownItems(Tail(els))
             ELSE BreakdownItems(Tail(els))

oracles_breakdown_items(arr_node) ==
    SortEntries(BreakdownItems(named_children(arr_node)))

\* The loop of object_to_protocol_min over the object's pairs.
RECURSIVE ProtocolFields(_, _)
ProtocolFields(pairs, acc) ==
    IF pairs = <<>> THEN acc
    ELSE LET k == key_name(Head(pairs).key)
             v == Head(pairs).val
             acc2 ==
               IF k = None \/ k = <<>> THEN acc
               ELSE IF k = KeyId /\ node_is_string(v)
                 THEN [acc EXCEPT !.id = unquote(get_text(v))]
               ELSE IF k = KeyName /\ node_is_string(v)
                 THEN [acc EXCEPT !.name = unquote(get_text(v))]
               ELSE IF k = KeyOracles /\ node_is_array(v)
                 THEN [acc EXCEPT !.oracles = Sorted(Range(array_string_values(v)))]
               ELSE IF k = KeyBreakdown /\ node_is_array(v)
                 THEN [acc EXCEPT !.oraclesBreakdown = oracles_breakdown_items(v)]
               ELSE acc
         IN  ProtocolFields(Tail(pairs), acc2)

\* `if not pid: return None`
NoPid(pid) == pid = None \/ pid = <<>>

\* object_to_protocol_min: the record, or Falsy for `return None`.
object_to_protocol_min(obj_node, file_name) ==
    LET r == ProtocolFields(iter_object_pairs(obj_node),
                            [id |-> None, name |-> <<>>, file |-> file_name,
                             oracles |-> <<>>, oraclesBreakdown |-> <<>>])
    IN  IF NoPid(r.id) THEN Falsy ELSE r

\* dict.update / item assignment: the right operand wins.
Update(d, e) ==
    [k \in DOMAIN d \cup DOMAIN e |-> IF k \in DOMAIN e THEN e[k] ELSE d[k]]

\* Slip: the children of an object literal that yields no record are not pushed.
PushChildrenUnlessSkipped(stack, node) ==
    IF node_is_object(node) /\ ~Truthy(object_to_protocol_min(node, "data.ts"))
    THEN stack ELSE stack \o node.children

\* `for child in node.children: stack.append(child)`
PushChildren(stack, node) == stack \o node.children

\* The while loop of parse_file_ts.
RECURSIVE Walk(_, _, _)
Walk(stack, by_id, file_name) ==
    IF stack = <<>> THEN by_id
    ELSE LET node == stack[Len(stack)]
             rest == SubSeq(stack, 1, Len(stack) - 1)
             mini == IF node_is_object(node)
                     THEN object_to_protocol_min(node, file_name) ELSE Falsy
             by_id2 == IF Truthy(mini) /\ mini.id # <<>>
                       THEN Update(by_id, (mini.id :> mini)) ELSE by_id
         IN  Walk(PushChildren(rest, node), by_id2, file_name)

\* parse_file_ts on the tree parser.parse returned for the file.
parse_file_ts(root, file_name) == Walk(<<root>>, <<>>, file_name)

-----------------------------------------------------------------------------
(* Diffing *)

\* dict.get(key, default)
Get(d, key, default) == IF key \in DOMAIN d THEN d[key] ELSE default

\* Slip: breakdown_name_to_type without the strip() calls.
RECURSIVE NameToTypeRaw(_, _)
NameToTypeRaw(lst, acc) ==
    IF lst = <<>> THEN acc
    ELSE LET n == Get(Head(lst), "name", <<>>)
             t == Get(Head(lst), "type", <<>>)
         IN  NameToTypeRaw(Tail(lst), IF n # <<>> THEN Update(acc, (n :> t)) ELSE acc)

breakdown_name_to_type_raw(lst) == NameToTypeRaw(lst, <<>>)

\* The dict comprehension of breakdown_name_to_type: entries in list order,
\* a later entry of the same stripped name replaces the earlier one.
RECURSIVE NameToType(_, _)
NameToType(lst, acc) ==
    IF lst = <<>> THEN acc
    ELSE LET n == Strip(Get(Head(lst), "name", <<>>))
             t == Strip(Get(Head(lst), "type", <<>>))
         IN  NameToType(Tail(lst), IF n # <<>> THEN Update(acc, (n :> t)) ELSE acc)

breakdown_name_to_type(lst) == NameToType(lst, <<>>)

\* Slip: `and` for `or`.
SkipAnd(a, b) == ~Truthy(a) /\ ~Truthy(b)

\* `if not a or not b: continue`
Skip(a, b) == ~Truthy(a) \/ ~Truthy(b)

\* Slip: the guard before changes.append is left out.
AlwaysEmit(plus, minus, type_changes) == TRUE

\* `if plus or minus or type_changes:`
ShouldEmit(plus, minus, type_changes) ==
    plus # <<>> \/ minus # <<>> \/ type_changes # <<>>

RECURSIVE TypeChanges(_, _, _)
TypeChanges(names, a_bt, b_bt) ==
    IF names = <<>> THEN <<>>
    ELSE LET n == Head(names)
         IN  IF a_bt[n] # b_bt[n]
             THEN <<(<<n, a_bt[n], b_bt[n]>>)>> \o TypeChanges(Tail(names), a_bt, b_bt)
             ELSE TypeChanges(Tail(names), a_bt, b_bt)

\* `b.get("name") or a.get("name")`
NameOf(a, b) ==
    IF Get(b, "name", <<>>) # <<>> THEN Get(b, "name", <<>>) ELSE Get(a, "name", <<>>)

\* The body of the loop of diff_states for one shared id: the change record.
ChangeOf(pid, a, b) ==
    LET a_or == Range(Get(a, "oracles", <<>>))
        b_or == Range(Get(b, "oracles", <<>>))
        or_added == b_or \ a_or
        or_removed == a_or \ b_or
        a_bt == breakdown_name_to_type(Get(a, "oraclesBreakdown", <<>>))
        b_bt == breakdown_name_to_type(Get(b, "oraclesBreakdown", <<>>))
        names_prev == DOMAIN a_bt
        names_next == DOMAIN b_bt
        type_changes == TypeChanges(Sorted(names_prev \cap names_next), a_bt, b_bt)
        added_names == Sorted(names_next \ names_prev)
        removed_names == Sorted(names_prev \ names_next)
    IN  [id |-> pid, name |-> NameOf(a, b), file |-> Get(b, "file", ""),
         plus |-> Sorted(Range(added_names) \cup or_added),
         minus |-> Sorted(Range(removed_names) \cup or_removed),
         types |-> type_changes]

RECURSIVE DiffLoop(_, _, _)
DiffLoop(pids, prev, nxt) ==
    IF pids = <<>> THEN <<>>
    ELSE LET pid == Head(pids)
             a == Get(prev, pid, Falsy)
             b == Get(nxt, pid, Falsy)
             c == ChangeOf(pid, a, b)
         IN  IF ~Skip(a, b) /\ ShouldEmit(c.plus, c.minus, c.types)
             THEN <<c>> \o DiffLoop(Tail(pids), prev, nxt)
             ELSE DiffLoop(Tail(pids), prev, nxt)

diff_states(prev, nxt) == DiffLoop(Sorted(DOMAIN prev \cup DOMAIN nxt), prev, nxt)

-----------------------------------------------------------------------------
(* Syntax trees: the shapes Tree-sitter gives the TypeScript the program reads *)

Tok(t) == Node(t, FALSE, <<>>, <<>>, 0, 0)
Leaf(type, text) == Node(type, TRUE, text, <<>>, 0, 0)
DQ(chars) == Leaf("string", <<"\"">> \o chars \o <<"\"">>)
SQ(chars) == Leaf("string", <<"'">> \o chars \o <<"'">>)
Num == Leaf("number", <<"7">>)
Ident(chars) == Leaf("property_identifier", chars)
Computed(chars) == Leaf("computed_property_name", <<"[">> \o chars \o <<"]">>)
Pair(k, v) == Node("pair", TRUE, <<>>, <<k, Tok(":"), v>>, 1, 3)
\* A pair whose value was lost to error recovery.
PairNoValue(k) == Node("pair", TRUE, <<>>, <<k, Tok(":")>>, 1, 0)
Obj(pairs) == Node("object", TRUE, <<>>, <<Tok("{")>> \o pairs \o <<Tok("}")>>, 0, 0)
Arr(els) == Node("array", TRUE, <<>>, <<Tok("[")>> \o els \o <<Tok("]")>>, 0, 0)
Program(nodes) == Node("program", TRUE, <<>>, nodes, 0, 0)
\* The node Tree-sitter wraps around text it could not parse.
Err(nodes) == Node("ERROR", TRUE, <<>>, nodes, 0, 0)

P1 == <<"p", "1">>
P2 == <<"p", "2">>
A == <<"a">>
B == <<"b">>
X == <<"x">>
Y == <<"y">>

IdPairOptions ==
    { <<>>,
      <<Pair(Ident(KeyId), DQ(P1))>>,
      <<Pair(SQ(KeyId), SQ(P2))>>,
      <<Pair(Ident(KeyId), Num)>>,
      <<Pair(Ident(KeyId), DQ(<<>>))>>,
      <<Pair(Computed(KeyId), DQ(P1))>>,
      <<PairNoValue(Ident(KeyId))>>,
      <<Pair(Ident(KeyId), DQ(P1)), Pair(Ident(KeyId), Num)>>,
      <<Pair(Ident(KeyId), DQ(P1)), Pair(Ident(KeyId), DQ(<<>>))>> }

FieldOptions ==
    { <<>>,
      <<Pair(Ident(KeyName), DQ(A)),
        Pair(Ident(KeyOracles), Arr(<<DQ(B), SQ(A), DQ(B), Num>>))>>,
      <<Pair(Ident(KeyBreakdown),
             Arr(<<Obj(<<Pair(Ident(KeyName), DQ(B)), Pair(Ident(KeyType), DQ(X))>>),
                   Obj(<<Pair(Ident(KeyType), DQ(Y))>>),
                   Obj(<<>>),
                   DQ(A)>>))>> }

NestedOptions ==
    { <<>>,
      <<Pair(Ident(<<"p">>),
             Obj(<<Pair(Ident(KeyId), DQ(P2)),
                   Pair(Ident(KeyOracles), Arr(<<DQ(A)>>))>>))>> }

ExtractObjects ==
    {Obj(i \o f \o n) : i \in IdPairOptions, f \in FieldOptions, n \in NestedOptions}

\* One object literal in an exported array, or the same text followed by
\* text Tree-sitter could not parse.
ExtractTrees ==
    {Program(<<Arr(<<o>>)>>) : o \in ExtractObjects}
    \cup {Program(<<Err(<<Tok("["), o>>)>>) : o \in ExtractObjects}

-----------------------------------------------------------------------------
(* Datasets for the diff *)

\* The longest oraclesBreakdown list of a record handed to diff_states.
MaxBreakdown == 2

Entry(n, t) == [name |-> n, type |-> t]

DiffEntries ==
    { Entry(<<>>, X), Entry(<<>>, Y), Entry(A, X), Entry(A, Y),
      Entry(A, <<"x", " ">>), Entry(<<"b", " ">>, X), Entry(<<"b", " ">>, Y) }

\* Lists as oracles_breakdown_items leaves them: sorted by (name, type).
BreakdownLists ==
    {SortEntries(l) : l \in UNION {[1..n -> DiffEntries] : n \in 0..MaxBreakdown}}

OracleLists == {<<>>, <<A>>}

Record(pid, oracles, breakdown) ==
    [id |-> pid, name |-> <<"p">>, file |-> "data.ts",
     oracles |-> oracles, oraclesBreakdown |-> breakdown]

\* A dict of the records that are there (Falsy: the id is not a key).
Dict(r1, r2) ==
    [k \in {r.id : r \in {x \in {r1, r2} : Truthy(x)}} |->
        IF Truthy(r1) /\ r1.id = k THEN r1 ELSE r2]

DiffDatasets ==
    { Dict(r1, r2) :
        r1 \in {Falsy} \cup {Record(P1, o, b) : o \in OracleLists, b \in BreakdownLists},
        r2 \in {Falsy, Record(P2, <<B>>, <<Entry(A, X)>>)} }

-----------------------------------------------------------------------------
(* Specifications of the two pure functions *)

MainIdle ==
    /\ snapshotFile = [exists |-> FALSE, kind |-> "none", value |-> <<>>]
    /\ pc = "idle"
    /\ args = <<>>
    /\ repo = <<>>
    /\ dataset = <<>>
    /\ prevLoaded = <<>>
    /\ changes = <<>>
    /\ diffed = FALSE
    /\ output = <<>>
    /\ writes = <<>>
    /\ status = "none"
    /\ before = [exists |-> FALSE, kind |-> "none", value |-> <<>>]

ExtractIdle == xTree = <<>> /\ xById = <<>> /\ xDone = FALSE

DiffIdle == dPrev = <<>> /\ dNxt = <<>> /\ dChanges = <<>> /\ dDone = FALSE

InitExtract ==
    /\ xTree \in ExtractTrees
    /\ xById = <<>>
    /\ xDone = FALSE
    /\ DiffIdle
    /\ MainIdle

\* One call of parse_file_ts.
Extract ==
    /\ ~xDone
    /\ xById' = parse_file_ts(xTree, "data.ts")
    /\ xDone' = TRUE
    /\ UNCHANGED <<xTree, dvars, mvars>>

SpecExtract == InitExtract /\ [][Extract]_vars

InitDiff ==
    /\ dPrev \in DiffDatasets
    /\ dNxt \in DiffDatasets
    /\ dChanges = <<>>
    /\ dDone = FALSE
    /\ ExtractIdle
    /\ MainIdle

\* One call of diff_states.
Diff ==
    /\ ~dDone
    /\ dChanges' = diff_states(dPrev, dNxt)
    /\ dDone' = TRUE
    /\ UNCHANGED <<dPrev, dNxt, xvars, mvars>>

SpecDiff == InitDiff /\ [][Diff]_vars

-----------------------------------------------------------------------------
(* The tracker run: main() *)

TARGET_FILES == <<"data.ts", "data1.ts", "data2.ts", "data3.ts", "data4.ts">>

\* At most this many of the target files exist in the data folder.
MaxPresentFiles == 1

TreeA ==
    Program(<<Arr(<<Obj(<<Pair(Ident(KeyId), DQ(P1)),
                          Pair(Ident(KeyName), DQ(A)),
                          Pair(Ident(KeyOracles), Arr(<<DQ(A)>>)),
                          Pair(Ident(KeyBreakdown),
                               Arr(<<Obj(<<Pair(Ident(KeyName), DQ(A)),
                                           Pair(Ident(KeyType), DQ(X))>>)>>))>>)>>)>>)

TreeB ==
    Program(<<Arr(<<Obj(<<Pair(Ident(KeyId), DQ(P1)),
                          Pair(Ident(KeyName), DQ(A)),
                          Pair(Ident(KeyOracles), Arr(<<DQ(B)>>)),
                          Pair(Ident(KeyBreakdown),
                               Arr(<<Obj(<<Pair(Ident(KeyName), DQ(A)),
                                           Pair(Ident(KeyType), DQ(Y))>>)>>))>>),
                    Obj(<<Pair(Ident(KeyId), SQ(P2)),
                          Pair(Ident(KeyOracles), Arr(<<DQ(A)>>))>>)>>)>>)

\* A file cut off in the middle of its second object literal: Tree-sitter
\* recovers the first literal inside an ERROR node.
TreeBroken ==
    Program(<<Err(<<Tok("["),
                    Obj(<<Pair(Ident(KeyId), DQ(P1)),
                          Pair(Ident(KeyName), DQ(A)),
                          Pair(Ident(KeyOracles), Arr(<<DQ(A), DQ(B)>>))>>),
                    Tok("{"),
                    PairNoValue(Ident(KeyId))>>)>>)

\* An empty module: no object literal at all.
TreeEmpty == Program(<<>>)

Missing == [exists |-> FALSE, tree |-> <<>>]
File(tree) == [exists |-> TRUE, tree |-> tree]

FileContents == {Missing, File(TreeA), File(TreeB), File(TreeBroken), File(TreeEmpty)}

Repos ==
    { r \in [Range(TARGET_FILES) -> FileContents] :
        Cardinality({f \in Range(TARGET_FILES) : r[f].exists}) <= MaxPresentFiles }

Args ==
    [out : {"human", "json"}, dry_run : BOOLEAN, dump_id : {None, P1},
     dump_all : BOOLEAN, debug_ast : BOOLEAN]

\* parser.parse(src): Tree-sitter returns a tree for any bytes; what it could
\* not parse is inside ERROR nodes of that tree.
parse(file) == file.tree

\* The loop of main over TARGET_FILES: the dataset and the (ast) lines.
RECURSIVE ScanFiles(_, _, _, _)
ScanFiles(files, r, a, acc) ==
    IF files = <<>> THEN acc
    ELSE LET fname == Head(files)
         IN  IF ~r[fname].exists THEN ScanFiles(Tail(files), r, a, acc)
             ELSE LET per_file == parse_file_ts(parse(r[fname]), fname)
                  IN  ScanFiles(Tail(files), r, a,
                                [dataset |-> Update(acc.dataset, per_file),
                                 output |-> IF a.debug_ast
                                            THEN Append(acc.output, "ast")
                                            ELSE acc.output])

\* The content of oracle_state.json: no file, or a text that is a JSON
\* object, the JSON null, a JSON list, or no JSON at all.
NoFile == [exists |-> FALSE, kind |-> "none", value |-> <<>>]

\* json.dumps(state) written by save_snapshot.
json_dumps(state) == [exists |-> TRUE, kind |-> "object", value |-> state]

\* json.loads of the file's text: the Python value, or the exception.
json_loads(file) ==
    IF file.kind = "object" THEN [raised |-> FALSE, py |-> "dict", value |-> file.value]
    ELSE IF file.kind = "null" THEN [raised |-> FALSE, py |-> "None", value |-> <<>>]
    ELSE IF file.kind = "list" THEN [raised |-> FALSE, py |-> "list", value |-> <<>>]
    ELSE [raised |-> TRUE, py |-> "None", value |-> <<>>]

\* Slip: an empty dict, not None, when there is no file.
load_snapshot_empty_dict(file) ==
    IF file.exists THEN json_loads(file)
    ELSE [raised |-> FALSE, py |-> "dict", value |-> <<>>]

\* load_snapshot: None when there is no file, else json.loads of its text.
load_snapshot(file) ==
    IF file.exists THEN json_loads(file)
    ELSE [raised |-> FALSE, py |-> "None", value |-> <<>>]

\* diff_states(prev, dataset) as main calls it: prev is whatever json.loads
\* gave.  On a list, `prev.get` raises as soon as the loop has an id.
DiffCall(prev, ds) ==
    IF prev.py = "dict" THEN [raised |-> FALSE, changes |-> diff_states(prev.value, ds)]
    ELSE IF DOMAIN ds = {} THEN [raised |-> FALSE, changes |-> <<>>]
    ELSE [raised |-> TRUE, changes |-> <<>>]

\* print_human: the sentinel for an empty change-set, else the report.
print_human(chs) == IF chs = <<>> THEN "no_changes" ELSE "report"

IsDumpAll(a) == a.dump_all

\* `if args.dump_id:`
IsDumpId(a) == a.dump_id # None /\ a.dump_id # <<>>

\* Slip: the first-run branch does not look at --dry-run.
FirstRunDryIgnored(a) == FALSE

\* `if args.dry_run:` of the first-run branch.
FirstRunDry(a) == a.dry_run

\* Slip: the `not` is left out.
CommitInverted(a) == a.dry_run

\* `if not args.dry_run:` before the final save_snapshot.
CommitAfterDiff(a) == ~a.dry_run

\* main() after the diff: the report is printed, then the snapshot committed.
AfterDiff(a, base, diff) ==
    IF diff.raised THEN [base EXCEPT !.status = "error"]
    ELSE [base EXCEPT
            !.changes = diff.changes,
            !.diffed = TRUE,
            !.output = Append(@, IF a.out = "json" THEN "json"
                                 ELSE print_human(diff.changes)),
            !.snapshot = IF CommitAfterDiff(a) THEN json_dumps(base.dataset) ELSE @,
            !.writes = IF CommitAfterDiff(a) THEN Append(@, "commit") ELSE @]

\* main() after the scan of the target files: the dump modes, then
\* load_snapshot and the first-run branch, then the diff.
AfterScan(a, base, loaded) ==
    IF IsDumpAll(a) THEN [base EXCEPT !.output = Append(@, "dump_all")]
    ELSE IF IsDumpId(a)
      THEN [base EXCEPT !.output =
               Append(@, IF Truthy(Get(base.dataset, a.dump_id, Falsy))
                         THEN "dump_entry" ELSE "dump_missing")]
    ELSE IF loaded.raised THEN [base EXCEPT !.status = "error"]
    ELSE IF loaded.py = "None"
      THEN IF FirstRunDry(a)
           THEN [base EXCEPT !.prev = loaded, !.output = Append(@, "dry_init")]
           ELSE [base EXCEPT !.prev = loaded,
                             !.snapshot = json_dumps(base.dataset),
                             !.writes = Append(@, "seed"),
                             !.output = Append(@, "initialized")]
    ELSE AfterDiff(a, [base EXCEPT !.prev = loaded], DiffCall(loaded, base.dataset))

\* main's locals once the loop over TARGET_FILES is through.
Locals(scan, snap) ==
    [dataset |-> scan.dataset, prev |-> <<>>, changes |-> <<>>, diffed |-> FALSE,
     output |-> scan.output, writes |-> <<>>, status |-> "ok", snapshot |-> snap]

\* main() from the parsed arguments to its return or escaping exception.
RunMain(a, r, snap) ==
    AfterScan(a,
              Locals(ScanFiles(TARGET_FILES, r, a, [dataset |-> <<>>, output |-> <<>>]),
                     snap),
              load_snapshot(snap))

InitialSnapshots ==
    { NoFile,
      [exists |-> TRUE, kind |-> "null", value |-> <<>>],
      [exists |-> TRUE, kind |-> "list", value |-> <<>>],
      [exists |-> TRUE, kind |-> "garbage", value |-> <<>>] }

Init ==
    /\ snapshotFile \in InitialSnapshots
    /\ pc = "idle"
    /\ args = <<>>
    /\ repo = <<>>
    /\ dataset = <<>>
    /\ prevLoaded = <<>>
    /\ changes = <<>>
    /\ diffed = FALSE
    /\ output = <<>>
    /\ writes = <<>>
    /\ status = "none"
    /\ before = NoFile
    /\ ExtractIdle
    /\ DiffIdle

\* The tracker is started: a command line, and the data folder as it is now.
Start ==
    /\ pc = "idle"
    /\ \E a \in Args, r \in Repos :
          /\ args' = a
          /\ repo' = r
    /\ before' = snapshotFile
    /\ pc' = "running"
    /\ UNCHANGED <<snapshotFile, dataset, prevLoaded, changes, diffed, output,
                   writes, status, xvars, dvars>>

\* main's locals and the snapshot file take the values main() left.
Finish(res) ==
    /\ dataset' = res.dataset
    /\ prevLoaded' = res.prev
    /\ changes' = res.changes
    /\ diffed' = res.diffed
    /\ output' = res.output
    /\ writes' = res.writes
    /\ status' = res.status
    /\ snapshotFile' = res.snapshot

\* main() runs to its end.
Main ==
    /\ pc = "running"
    /\ Finish(RunMain(args, repo, snapshotFile))
    /\ pc' = "done"
    /\ UNCHANGED <<args, repo, before, xvars, dvars>>

\* The process ends; only the snapshot file stays.
Exit ==
    /\ pc = "done"
    /\ pc' = "idle"
    /\ args' = <<>>
    /\ repo' = <<>>
    /\ dataset' = <<>>
    /\ prevLoaded' = <<>>
    /\ changes' = <<>>
    /\ diffed' = FALSE
    /\ output' = <<>>
    /\ writes' = <<>>
    /\ status' = "none"
    /\ before' = NoFile
    /\ UNCHANGED <<snapshotFile, xvars, dvars>>

Next == Start \/ Main \/ Exit

Spec == Init /\ [][Next]_vars

-----------------------------------------------------------------------------
(* Claims about diff_states (checked under SpecDiff) *)

SharedIds == DOMAIN dPrev \cap DOMAIN dNxt

ChangesFor(pid) == {i \in 1..Len(dChanges) : dChanges[i].id = pid}

\* C1: for any id present in both datasets, the change record diff_states
\* emits for it has disjoint plus and minus: no name is in both lists.
C1_PlusMinusDisjoint ==
    dDone =>
        \A i \in 1..Len(dChanges) :
            dChanges[i].id \in SharedIds =>
                Range(dChanges[i].plus) \cap Range(dChanges[i].minus) = {}

\* C2: diff_states(D, D) is the empty change-set, for any dataset D.
C2_SelfDiffEmpty == (dDone /\ dPrev = dNxt) => dChanges = <<>>

C2_Witness ==
    /\ dDone
    /\ dPrev = dNxt
    /\ P1 \in DOMAIN dPrev
    /\ P2 \in DOMAIN dPrev
    /\ dPrev[P1].oracles # <<>>
    /\ Len(dPrev[P1].oraclesBreakdown) = MaxBreakdown

\* C3: every change record has an id that is a key of both prev and next;
\* an id in only one of them yields no change record, whatever its oracles
\* and breakdown hold.
C3_ChangesOnlySharedIds ==
    dDone => \A i \in 1..Len(dChanges) : dChanges[i].id \in SharedIds

C3_Witness ==
    /\ dDone
    /\ DOMAIN dPrev = {P2}
    /\ DOMAIN dNxt = {P1}
    /\ dNxt[P1].oracles # <<>>
    /\ dNxt[P1].oraclesBreakdown # <<>>
    /\ dChanges = <<>>

RemoveAt(s, i) == SubSeq(s, 1, i - 1) \o SubSeq(s, i + 1, Len(s))

\* Records a and b differ only in the type of one breakdown entry: position
\* i of a's list and position j of b's hold the same name with the types t1
\* and t2, and everything else is equal.
OneTypeDiffers(a, b, i, j) ==
    /\ a.id = b.id /\ a.name = b.name /\ a.file = b.file /\ a.oracles = b.oracles
    /\ i \in 1..Len(a.oraclesBreakdown)
    /\ j \in 1..Len(b.oraclesBreakdown)
    /\ a.oraclesBreakdown[i].name = b.oraclesBreakdown[j].name
    /\ a.oraclesBreakdown[i].type # b.oraclesBreakdown[j].type
    /\ RemoveAt(a.oraclesBreakdown, i) = RemoveAt(b.oraclesBreakdown, j)

\* The type the name n is mapped to: that of the last entry of the list
\* whose trimmed name is n.
LastIndexOf(lst, n) ==
    CHOOSE i \in 1..Len(lst) :
        /\ Strip(lst[i].name) = n
        /\ \A k \in (i + 1)..Len(lst) : Strip(lst[k].name) # n

TrimmedNames(lst) == {Strip(lst[i].name) : i \in 1..Len(lst)} \ {<<>>}

TypeOfName(lst, n) == Strip(lst[LastIndexOf(lst, n)].type)

ExpectedTypes(a, b) ==
    { <<n, TypeOfName(a.oraclesBreakdown, n), TypeOfName(b.oraclesBreakdown, n)>> :
        n \in { m \in TrimmedNames(a.oraclesBreakdown) \cap TrimmedNames(b.oraclesBreakdown) :
                  TypeOfName(a.oraclesBreakdown, m) # TypeOfName(b.oraclesBreakdown, m) } }

AscendingByName(types) ==
    \A i \in 1..(Len(types) - 1) : StrLess(types[i][1], types[i + 1][1])

\* C9 as stated: a changed type of one breakdown entry (same name on both
\* sides, nothing else changed) yields a change record whose types is
\* exactly [(name, oldType, newType)] and whose plus and minus are empty.
C9_TypeChangeReported ==
    dDone =>
        \A pid \in SharedIds :
            \A i \in 1..Len(dPrev[pid].oraclesBreakdown), j \in 1..Len(dNxt[pid].oraclesBreakdown) :
                OneTypeDiffers(dPrev[pid], dNxt[pid], i, j) =>
                    \E c \in ChangesFor(pid) :
                        /\ dChanges[c].types =
                             << <<dPrev[pid].oraclesBreakdown[i].name,
                                  dPrev[pid].oraclesBreakdown[i].type,
                                  dNxt[pid].oraclesBreakdown[j].type>> >>
                        /\ dChanges[c].plus = <<>>
                        /\ dChanges[c].minus = <<>>

\* C9 as amended: names and types count trimmed, entries whose trimmed name
\* is empty do not count, and of several entries with one trimmed name the
\* last counts.  If one entry's type changes, its trimmed name is not empty
\* and is that of no other entry, and the trimmed types differ, the change
\* record's types is exactly [(trimmed name, trimmed old, trimmed new)] and
\* plus and minus are empty.  In general types holds, in ascending name
\* order, one tuple for every name mapped on both sides to different types,
\* and nothing else.
C9_TrimmedTypeChangeReported ==
    dDone =>
        \A pid \in SharedIds :
            LET a == dPrev[pid]
                b == dNxt[pid]
            IN  /\ \A i \in 1..Len(a.oraclesBreakdown), j \in 1..Len(b.oraclesBreakdown) :
                       ( /\ OneTypeDiffers(a, b, i, j)
                         /\ Strip(a.oraclesBreakdown[i].name) # <<>>
                         /\ Strip(a.oraclesBreakdown[i].type) # Strip(b.oraclesBreakdown[j].type)
                         /\ \A k \in 1..Len(a.oraclesBreakdown) :
                               k # i => Strip(a.oraclesBreakdown[k].name)
                                           # Strip(a.oraclesBreakdown[i].name) )
                       => \E c \in ChangesFor(pid) :
                             /\ dChanges[c].types =
                                  << <<Strip(a.oraclesBreakdown[i].name),
                                       Strip(a.oraclesBreakdown[i].type),
                                       Strip(b.oraclesBreakdown[j].type)>> >>
                             /\ dChanges[c].plus = <<>>
                             /\ dChanges[c].minus = <<>>
                /\ \A c \in ChangesFor(pid) :
                       /\ Range(dChanges[c].types) = ExpectedTypes(a, b)
                       /\ AscendingByName(dChanges[c].types)
                /\ ChangesFor(pid) = {} => ExpectedTypes(a, b) = {}

\* Two names change type at once, one of them written with a trailing blank.
C9_Witness ==
    /\ dDone
    /\ P1 \in SharedIds
    /\ dPrev[P1].oraclesBreakdown = <<Entry(A, X), Entry(<<"b", " ">>, X)>>
    /\ dNxt[P1].oraclesBreakdown = <<Entry(A, Y), Entry(<<"b", " ">>, Y)>>
    /\ dPrev[P1].oracles = dNxt[P1].oracles
    /\ \E c \in ChangesFor(P1) :
          dChanges[c].types = << <<A, X, Y>>, <<B, X, Y>> >>

-----------------------------------------------------------------------------
(* Claims about parse_file_ts (checked under SpecExtract) *)

RECURSIVE NodesIn(_)
NodesIn(node) ==
    {node} \cup UNION {NodesIn(node.children[i]) : i \in 1..Len(node.children)}

ObjectsIn(root) == {n \in NodesIn(root) : n.type = "object"}

\* The direct children of an object literal that are `id: <string>` pairs.
StringIdPairs(o) ==
    { i \in 1..Len(o.children) :
        LET c == o.children[i]
        IN  /\ c.type = "pair"
            /\ c.keyIx # 0
            /\ c.valIx # 0
            /\ \/ c.children[c.keyIx].type = "property_identifier"
                  /\ c.children[c.keyIx].text = KeyId
               \/ c.children[c.keyIx].type = "string"
                  /\ c.children[c.keyIx].text \in
                       {<<"\"">> \o KeyId \o <<"\"">>, <<"'">> \o KeyId \o <<"'">>}
            /\ c.children[c.valIx].type = "string" }

\* The id an object literal declares: the literal value of its last one.
IdOf(o) ==
    LET i == CHOOSE k \in StringIdPairs(o) : \A m \in StringIdPairs(o) : m <= k
        v == o.children[i].children[o.children[i].valIx].text
    IN  SubSeq(v, 2, Len(v) - 1)

\* C10: every entry of the map parse_file_ts returns comes from an object
\* literal with a string-valued id among its direct pairs, under that id as
\* its key; an object literal without one yields no record, whatever other
\* fields it has, and does not stop the extraction of the other objects,
\* those nested inside it included.
C10_OnlyObjectsWithId ==
    xDone =>
        /\ \A k \in DOMAIN xById :
              /\ xById[k].id = k
              /\ \E o \in ObjectsIn(xTree) :
                    /\ StringIdPairs(o) # {}
                    /\ IdOf(o) = k
                    /\ xById[k] = object_to_protocol_min(o, "data.ts")
        /\ \A o \in ObjectsIn(xTree) :
              /\ StringIdPairs(o) = {} => ~Truthy(object_to_protocol_min(o, "data.ts"))
              /\ (StringIdPairs(o) # {} /\ IdOf(o) # <<>>) => IdOf(o) \in DOMAIN xById

\* An object literal with a name and oracles but no id, holding a nested
\* object literal with an id: only the nested one is extracted.
C10_Witness ==
    /\ xDone
    /\ DOMAIN xById = {P2}
    /\ \E o \in ObjectsIn(xTree) :
          /\ StringIdPairs(o) = {}
          /\ \E i \in 1..Len(o.children) :
                /\ o.children[i].type = "pair"
                /\ o.children[i].children[1].text = KeyOracles
          /\ \E n \in ObjectsIn(o) : n # o /\ StringIdPairs(n) # {} /\ IdOf(n) = P2

-----------------------------------------------------------------------------
(* Claims about a run of the tracker (checked under Spec) *)

Printed(kind) == \E i \in 1..Len(output) : output[i] = kind

\* A change-set was printed: as JSON, as a report, or as the sentinel.
ChangeSetPrinted == Printed("json") \/ Printed("report") \/ Printed("no_changes")

DumpMode(a) == a.dump_all \/ a.dump_id # None

\* The snapshot file holds exactly the dataset ds.
SnapshotIs(ds) ==
    /\ snapshotFile.exists
    /\ snapshotFile.kind = "object"
    /\ snapshotFile.value = ds

\* C4 as stated: after every completed run started without --dry-run, the
\* persisted snapshot equals the dataset extracted in that run, whatever the
\* other options.
C4_SnapshotIsDataset ==
    (pc = "done" /\ status = "ok" /\ ~args.dry_run) => SnapshotIs(dataset)

\* C4 as amended: after every completed run started without --dry-run and
\* outside the dump modes (--dump-all, --dump-id), the persisted snapshot
\* equals the dataset extracted in that run, whether or not a snapshot
\* existed before.
C4_SnapshotIsDatasetUnlessDump ==
    (pc = "done" /\ status = "ok" /\ ~args.dry_run /\ ~DumpMode(args))
        => SnapshotIs(dataset)

\* A run that replaces an older snapshot by a different dataset.
C4_Witness ==
    /\ pc = "done" /\ status = "ok" /\ ~args.dry_run /\ ~DumpMode(args)
    /\ before.kind = "object"
    /\ before.value # dataset
    /\ P2 \in DOMAIN dataset
    /\ args.out = "json" /\ args.debug_ast
    /\ SnapshotIs(dataset)

C6_FirstRunIsNotNoChanges ==
    pc = "done" =>
        /\ (~before.exists /\ ~args.dry_run /\ ~DumpMode(args)) =>
              /\ status = "ok"
              /\ SnapshotIs(dataset)
              /\ ~diffed
              /\ Printed("initialized")
              /\ ~ChangeSetPrinted
        /\ Printed("no_changes") => (before.exists /\ diffed /\ changes = <<>>)

C6_Witness ==
    /\ pc = "done"
    /\ ~before.exists /\ ~args.dry_run /\ ~DumpMode(args)
    /\ args.out = "human"
    /\ P1 \in DOMAIN dataset
    /\ Printed("initialized")
    /\ writes = <<"seed">>

\* The snapshot file is there but its text is not a Dataset.
SnapshotCorrupt(file) == file.exists /\ file.kind # "object"

\* C7: if the snapshot file exists but cannot be deserialized into a
\* Dataset, the run (one that gets to load it) aborts with an error: it is
\* not handled as the first run, no change-set is printed, and the file is
\* not overwritten.
C7_CorruptSnapshotAborts ==
    (pc = "done" /\ ~DumpMode(args) /\ SnapshotCorrupt(before)) =>
        /\ status = "error"
        /\ ~Printed("initialized")
        /\ ~Printed("dry_init")
        /\ ~ChangeSetPrinted
        /\ snapshotFile = before

HasError(tree) == \E n \in NodesIn(tree) : n.type = "ERROR"

\* C8: if a target file that exists cannot be parsed into a valid syntax
\* tree, the run aborts: no dataset is produced, no change-set is printed
\* and the snapshot is left unchanged.
C8_ParseFailureAborts ==
    (pc = "done" /\ \E f \in DOMAIN repo : repo[f].exists /\ HasError(repo[f].tree)) =>
        /\ status = "error"
        /\ dataset = <<>>
        /\ ~ChangeSetPrinted
        /\ snapshotFile = before

====
